---- MODULE Spec2Model ----
(***************************************************************************)
(* A model of chunksum: the chunksums line format and its parser, the CDC  *)
(* Chunker, the file hasher, the command-line entry point and the single-  *)
(* and multi-process orchestrators.                                        *)
(*                                                                         *)
(* Text is a sequence of one-character strings, bytes are naturals.        *)
(***************************************************************************)
EXTENDS Integers, Sequences, FiniteSets, Bags

(***************************************************************************)
(* Bounds of the model.                                                    *)
(***************************************************************************)
\* number of worker processes: cpu_count() of the machine
NumWorkers == 2
\* longest enumeration of input paths handed to one run
MaxPaths == 2

(***************************************************************************)
(* Python's None, where a text is expected and where a byte string is      *)
(* expected: a value that is no text and no byte string.                   *)
(***************************************************************************)
NoneText == << "None" >>
NoneBytes == << -1 >>

(***************************************************************************)
(* Text helpers: str.split, str.join, str.strip, str(int), int(str),       *)
(* bytes.hex.                                                              *)
(***************************************************************************)
SP2 == << " ", " " >>

HexDigits == << "0", "1", "2", "3", "4", "5", "6", "7",
                "8", "9", "a", "b", "c", "d", "e", "f" >>

DecDigits == << "0", "1", "2", "3", "4", "5", "6", "7", "8", "9" >>

\* s[from..] (1-based), the empty text when from is past the end
Drop(s, from) == SubSeq(s, from, Len(s))

\* the least index at which sep occurs in s, 0 when it does not
Find(s, sep) ==
    LET hits == { i \in 1..(Len(s) - Len(sep) + 1) :
                      SubSeq(s, i, i + Len(sep) - 1) = sep }
    IN  IF hits = {} THEN 0 ELSE CHOOSE i \in hits : \A j \in hits : i <= j

RECURSIVE split(_, _)
\* str.split(sep): non-overlapping occurrences of sep, scanned left to right
split(s, sep) ==
    LET i == Find(s, sep)
    IN  IF i = 0 THEN << s >>
        ELSE << SubSeq(s, 1, i - 1) >> \o split(Drop(s, i + Len(sep)), sep)

RECURSIVE join(_, _)
\* sep.join(items)
join(items, sep) ==
    IF items = << >> THEN << >>
    ELSE IF Len(items) = 1 THEN items[1]
    ELSE items[1] \o sep \o join(Tail(items), sep)

RECURSIVE concat(_)
\* b"".join(items)
concat(items) ==
    IF items = << >> THEN << >> ELSE items[1] \o concat(Tail(items))

Whitespace == { " ", "\n" }

RECURSIVE lstrip(_)
lstrip(s) ==
    IF s # << >> /\ s[1] \in Whitespace THEN lstrip(Tail(s)) ELSE s

RECURSIVE rstrip(_)
rstrip(s) ==
    IF s # << >> /\ s[Len(s)] \in Whitespace
    THEN rstrip(SubSeq(s, 1, Len(s) - 1)) ELSE s

\* str.strip()
strip(s) == rstrip(lstrip(s))

RECURSIVE str(_)
\* str(n) of a natural number
str(n) ==
    IF n < 10 THEN << DecDigits[n + 1] >>
    ELSE str(n \div 10) \o << DecDigits[(n % 10) + 1] >>

IsDecimal(s) == s # << >> /\ \A i \in 1..Len(s) : \E d \in 1..10 : DecDigits[d] = s[i]

DigitValue(c) == (CHOOSE d \in 1..10 : DecDigits[d] = c) - 1

RECURSIVE int(_)
\* int(s) of a decimal text; the caller checks IsDecimal (int raises otherwise)
int(s) ==
    IF Len(s) = 1 THEN DigitValue(s[1])
    ELSE 10 * int(SubSeq(s, 1, Len(s) - 1)) + DigitValue(s[Len(s)])

RECURSIVE hex(_)
\* bytes.hex(): two lower-case hex digits per byte
hex(bytes) ==
    IF bytes = << >> THEN << >>
    ELSE << HexDigits[(bytes[1] \div 16) + 1], HexDigits[(bytes[1] % 16) + 1] >>
         \o hex(Tail(bytes))

(***************************************************************************)
(* hash.py: the digest of a byte string.  The digest function is kept      *)
(* collision-free: a tag byte naming the hash followed by the data.        *)
(***************************************************************************)
HashTag(hasher_name) ==
    IF hasher_name = << "s", "h", "a", "2" >> THEN 162 ELSE 178

\* hash_digest_size(data, hasher_name) -> (digest, size)
hash_digest_size(data, hasher_name) ==
    << << HashTag(hasher_name) >> \o data, Len(data) >>

(***************************************************************************)
(* chunksum.py: list_hash and format_a_result                              *)
(***************************************************************************)
\* alg_name[len("fck0"):]
HasherNameOf(alg_name) == Drop(alg_name, 5)

list_hash(digests, hasher_name) ==
    hash_digest_size(concat(digests), hasher_name)[1]

format_a_result(path, result, alg_name) ==
    LET chunks == join([i \in 1..Len(result) |->
                           hex(result[i][1]) \o << ":" >> \o str(result[i][2])],
                       << "," >>)
        digest == list_hash([i \in 1..Len(result) |-> result[i][1]],
                            HasherNameOf(alg_name))
    IN  hex(digest) \o SP2 \o path \o SP2 \o alg_name \o << "!" >> \o chunks

(***************************************************************************)
(* parser.py: parse_chunks and parse_line.  A Python exception is the      *)
(* record [ok |-> FALSE].                                                  *)
(***************************************************************************)
ParseError == [ok |-> FALSE]

parse_chunks(data) ==
    LET parts == split(data, << "!" >>)
    IN  IF Len(parts) # 2 THEN ParseError
        ELSE IF parts[2] = << >>
             THEN [ok |-> TRUE, alg_name |-> parts[1], chunks |-> << >>]
        ELSE LET cs    == SelectSeq(split(parts[2], << "," >>),
                                    LAMBDA c : c # << >>)
                 pairs == [i \in 1..Len(cs) |-> split(cs[i], << ":" >>)]
             IN  IF \E i \in 1..Len(pairs) :
                        Len(pairs[i]) # 2 \/ ~IsDecimal(pairs[i][2])
                 THEN ParseError
                 ELSE [ok |-> TRUE, alg_name |-> parts[1],
                       chunks |-> [i \in 1..Len(pairs) |->
                                      << pairs[i][1], int(pairs[i][2]) >>]]

\* parse_line taking the second token as the path, whatever follows it
parse_line_norejoin(line) ==
    LET items == split(line, SP2)
        n     == Len(items)
    IN  IF n < 2 THEN ParseError
        ELSE LET pc == parse_chunks(items[n])
             IN  IF ~pc.ok THEN ParseError
                 ELSE [ok |-> TRUE, checksum |-> items[1], path |-> items[2],
                       alg_name |-> pc.alg_name, chunks |-> pc.chunks]

parse_line(line) ==
    LET items == split(line, SP2)
        n     == Len(items)
    IN  IF n < 2 THEN ParseError
        ELSE LET path == IF n > 3 THEN join(SubSeq(items, 2, n - 1), SP2)
                         ELSE items[2]
                 pc   == parse_chunks(items[n])
             IN  IF ~pc.ok THEN ParseError
                 ELSE [ok |-> TRUE, checksum |-> items[1], path |-> path,
                       alg_name |-> pc.alg_name, chunks |-> pc.chunks]

(***************************************************************************)
(* cdc.py: the splitter.  fastcdc(stream, min, avg, max) cuts the stream   *)
(* into chunks from left to right; where it cuts depends on the bytes from *)
(* the chunk start alone: never before min_size bytes, then after the      *)
(* first byte the rolling hash judges a boundary (here: an odd byte), at   *)
(* max_size at the latest, and at the end of the stream.                   *)
(***************************************************************************)
\* scaled chunk-size parameters of the splitter
min_chunk_size == 1
max_chunk_size == 3

Min2(a, b) == IF a < b THEN a ELSE b

IsBoundary(byte) == byte % 2 = 1

\* length of the first chunk of a non-empty stream
cdc_offset(data) ==
    LET size    == Len(data)
        barrier == Min2(size, max_chunk_size)
        cuts    == { n \in (min_chunk_size + 1)..barrier : IsBoundary(data[n]) }
    IN  IF size <= min_chunk_size THEN size
        ELSE IF cuts = {} THEN barrier
        ELSE CHOOSE n \in cuts : \A m \in cuts : n <= m

RECURSIVE chunk_func(_)
\* every chunk of the stream, in order (the generator fastcdc returns, run out)
chunk_func(data) ==
    IF data = << >> THEN << >>
    ELSE LET cp == cdc_offset(data)
         IN  << SubSeq(data, 1, cp) >> \o chunk_func(Drop(data, cp + 1))

(***************************************************************************)
(* cdc.py: class Chunker.  _iter is None or the part of the stream the     *)
(* prepared generator has not split yet; _tail is a byte string or None.   *)
(***************************************************************************)
NewChunker == [_iter |-> NoneBytes, _tail |-> << >>]

\* update(message) raises TypeError when _tail is None (None + bytes)
UpdateRaises(c) == c._tail = NoneBytes

\* update that splits the message alone, without the retained tail
ChunkerUpdate_notail(c, message) == [c EXCEPT !._iter = message]

\* Chunker.update: a lazy producer over _tail + message; _tail is not changed
ChunkerUpdate(c, message) == [c EXCEPT !._iter = c._tail \o message]

\* a property that yields every chunk of the producer, the last one too
ChunksYielded_all(c) ==
    IF c._iter = NoneBytes THEN << >> ELSE chunk_func(c._iter)

\* list(Chunker.chunks): the chunks yielded by iterating the property to its end
ChunksYielded(c) ==
    IF c._iter = NoneBytes THEN << >>
    ELSE LET all == chunk_func(c._iter)
         IN  IF all = << >> THEN << >> ELSE SubSeq(all, 1, Len(all) - 1)

\* the Chunker after iterating the property to its end
ChunkerChunks(c) ==
    IF c._iter = NoneBytes THEN c
    ELSE LET all == chunk_func(c._iter)
         IN  [_iter |-> << >>,
              _tail |-> IF all = << >> THEN NoneBytes ELSE all[Len(all)]]

\* Chunker.reset: returns _tail, sets it to b""; _iter is left as it is
ChunkerReset(c) == [c EXCEPT !._tail = << >>]

(***************************************************************************)
(* chunksum.py: compute_file, reading the stream in buffers of buffer_size *)
(***************************************************************************)
\* scaled read size of iter_file_content (4 MiB in the program)
buffer_size == 2

DefaultAlg == << "f", "c", "k", "4", "s", "h", "a", "2" >>

\* result.append(hash_digest_size(chunk, hasher_name)) for every chunk
HashAll(chunks, hasher_name) ==
    [i \in 1..Len(chunks) |-> hash_digest_size(chunks[i], hasher_name)]

\* Python truthiness of chunker.tail
Truthy(bytes) == bytes # NoneBytes /\ bytes # << >>

RECURSIVE compute_file_loop(_, _, _, _)
compute_file_loop(chunker, rest, result, hasher_name) ==
    IF rest = << >>
    THEN IF Truthy(chunker._tail)
         THEN Append(result, hash_digest_size(chunker._tail, hasher_name))
         ELSE result
    ELSE LET n    == Min2(buffer_size, Len(rest))
             data == SubSeq(rest, 1, n)
             c1   == ChunkerUpdate(chunker, data)
         IN  compute_file_loop(ChunkerChunks(c1), Drop(rest, n + 1),
                               result \o HashAll(ChunksYielded(c1), hasher_name),
                               hasher_name)

compute_file(file, alg_name) ==
    compute_file_loop(NewChunker, file, << >>, HasherNameOf(alg_name))

(***************************************************************************)
(* The input files of a run and the chunksums files.                       *)
(***************************************************************************)
PathA == << "a" >>
PathB == << "b", " ", " ", "c" >>
Paths == { PathA, PathB }
PathOrder == << PathA, PathB >>

\* the bytes of each input file: a one-chunk file and an empty file
FileContent(path) == IF path = PathA THEN << 7 >> ELSE << >>

\* os.path.getsize
getsize(path) == Len(FileContent(path))

\* the directory given on the command line; PathA and PathB are the joined
\* paths of the files it may hold
DirPath == << "d" >>

\* what the file system holds at a path of Paths: a readable file, nothing,
\* or a file that open() refuses (permission denied)
FileStates == { "file", "absent", "denied" }

\* every file exists and can be read
AllFiles == [p \in Paths |-> "file"]

\* os.path.isdir
isdir(path) == path = DirPath

\* os.path.exists
path_exists(path, fsv) == isdir(path) \/ fsv[path] # "absent"

\* utils.sorted_walk(dir): the files of the directory, sorted by name
sorted_walk(dir, fsv) == SelectSeq(PathOrder, LAMBDA p : fsv[p] # "absent")

\* chunksum.iter_by_type: a directory gives its files, any other path itself
iter_by_type(path, fsv) ==
    IF isdir(path) THEN sorted_walk(path, fsv) ELSE << path >>

RECURSIVE iter_files(_, _)
\* chunksum.iter_files: the enumeration of the paths of the command line
iter_files(paths, fsv) ==
    IF paths = << >> THEN << >>
    ELSE iter_by_type(paths[1], fsv) \o iter_files(Tail(paths), fsv)

\* utils.get_size: the size of a file, 0 for a path that does not exist
get_size(path, fsv) == IF path_exists(path, fsv) THEN getsize(path) ELSE 0

RECURSIVE SumGetSize(_, _)
SumGetSize(files, fsv) ==
    IF files = << >> THEN 0
    ELSE get_size(files[1], fsv) + SumGetSize(Tail(files), fsv)

\* utils.get_total_size_dir: the sizes of the files os.walk finds
get_total_size_dir(dir, fsv) == SumGetSize(sorted_walk(dir, fsv), fsv)

\* utils.get_total_size
get_total_size(path, fsv) ==
    IF isdir(path) THEN get_total_size_dir(path, fsv) ELSE get_size(path, fsv)

\* every sequence over S of length at most n
RECURSIVE SeqsUpTo(_, _)
SeqsUpTo(S, n) ==
    IF n = 0 THEN { << >> }
    ELSE LET shorter == SeqsUpTo(S, n - 1)
         IN  shorter \cup { Append(q, x) : q \in shorter, x \in S }

RECURSIVE SumSizes(_, _)
\* sum([get_total_size(path) for path in paths])
SumSizes(paths, fsv) ==
    IF paths = << >> THEN 0
    ELSE get_total_size(paths[1], fsv) + SumSizes(Tail(paths), fsv)

SeqToBag(q) ==
    [x \in { q[i] : i \in DOMAIN q } |-> Cardinality({ i \in DOMAIN q : q[i] = x })]

\* the line the program writes for a path
LineOf(path) ==
    format_a_result(path, compute_file(FileContent(path), DefaultAlg), DefaultAlg)

\* one line of a file: its text and the run that wrote it (0: an earlier one)
Entry(line, run) == [line |-> line, run |-> run]

\* a chunksums file left by earlier runs over the paths of S
PriorLines(S) ==
    LET ps == SelectSeq(PathOrder, LAMBDA p : p \in S)
    IN  [i \in 1..Len(ps) |-> Entry(LineOf(ps[i]), 0)]

NoFile == [exists |-> FALSE, lines |-> << >>]

(***************************************************************************)
(* cli.py: included_in_chunksums over parse_chunksums                      *)
(***************************************************************************)
\* parse_chunksums: the stripped, non-empty lines, each through parse_line
parse_chunksums(lines) ==
    LET stripped == [i \in 1..Len(lines) |-> strip(lines[i].line)]
        kept     == SelectSeq(stripped, LAMBDA l : l # << >>)
    IN  [i \in 1..Len(kept) |-> parse_line(kept[i])]

\* parse_line raised on some line
ParseRaises(lines) ==
    \E i \in 1..Len(parse_chunksums(lines)) : ~parse_chunksums(lines)[i].ok

\* the set `paths` that the closure `included` tests membership of
included_in_chunksums(lines) ==
    { parse_chunksums(lines)[i].path : i \in 1..Len(parse_chunksums(lines)) }

(***************************************************************************)
(* chunksum.py: compute_one_file.  out is the output_file argument ("F",   *)
(* "I" or "None"), skip the set behind skip_func.  Returns what it prints  *)
(* to output_file, the size it advances the progress by and its result.    *)
(***************************************************************************)
\* compute_one_file without the test of skip_func
compute_one_file_noskip(path, out, skip, fsv) ==
    IF fsv[path] # "file"
    THEN [raises |-> TRUE, sums |-> NoneText, printed |-> << >>, size |-> 0]
    ELSE LET sums == LineOf(path)
         IN  [raises  |-> FALSE,
              sums    |-> sums,
              printed |-> IF out # "None" THEN << sums >> ELSE << >>,
              size    |-> getsize(path)]

\* getsize(path) raises FileNotFoundError for a path that does not exist and
\* open(path, "rb") raises PermissionError for a file that may not be read;
\* compute_one_file catches neither
compute_one_file(path, out, skip, fsv) ==
    IF fsv[path] = "absent"
    THEN [raises |-> TRUE, sums |-> NoneText, printed |-> << >>, size |-> 0]
    ELSE IF path \in skip
    THEN [raises |-> FALSE, sums |-> NoneText, printed |-> << >>,
          size |-> getsize(path)]
    ELSE IF fsv[path] = "denied"
    THEN [raises |-> TRUE, sums |-> NoneText, printed |-> << >>, size |-> 0]
    ELSE LET sums == LineOf(path)
         IN  [raises  |-> FALSE,
              sums    |-> sums,
              printed |-> IF out # "None" THEN << sums >> ELSE << >>,
              size    |-> getsize(path)]

(***************************************************************************)
(* State of a run of the command: cli.main, then chunksum.compute          *)
(* (single-process) or mp.compute_mp (multi-process).                      *)
(***************************************************************************)
VARIABLES
    args,            \* parsed command line: paths, multi_process, incr_file
    run,             \* number of the invocation of main (1, 2, ...)
    prev,            \* history: the command line and the file F of the run before
    chunksums,       \* the file named by -f: [exists, lines]
    incr,            \* the file named by -i: [exists, lines]
    skip_func,       \* the set of paths skip_func answers true for
    output_file,     \* which file output_file is open on: "F", "I" or "None"
    fs,              \* the file system: what each path of Paths holds
    pc,              \* where the driver (main, compute, compute_mp) stands
    sp_i,            \* walk: index of the next path of the enumeration
    total,           \* total size handed to the progress bar
    progress_n,      \* progress_bar.n
    queue_path,      \* Queue(10) of paths
    queue_sums,      \* Queue(10) of result lines
    queue_progress,  \* Queue(10) of sizes
    prod_pc,         \* producer process: "idle", "run", "done"
    prod_i,          \* producer: index of the next path to put
    wpc,             \* worker process w: position in consumer()
    wpath,           \* worker w: the path it dequeued (None when it holds none)
    cpc,             \* collector process: position in collector()
    mpc,             \* progress monitor process: "idle", "run", "done"
    busy_events,     \* busy flags: index 0 the collector's, 1.. the workers'
    stop_consumers,  \* Event
    stop_collector,  \* Event
    poll_i,          \* wait_consumers: index of the next busy flag to read
    all_idle         \* wait_consumers: what the flags read so far say

(***************************************************************************)
(* State of one Chunker object and of one call of compute_file, and of one *)
(* formatted line; the command does not share them between processes.      *)
(***************************************************************************)
VARIABLES
    chunker,         \* the Chunker: [_iter, _tail]
    supplied,        \* history: the bytes given to update since the last reset
    yielded,         \* history: the chunks yielded since the last reset
    raised,          \* the last call on the Chunker raised an exception
    stream,          \* compute_file: the bytes of the stream not read yet
    result,          \* compute_file: the list result
    fpc,             \* compute_file: "off", "read", "chunks", "tail", "done"
    last_call,       \* history: the last call made on the Chunker
    fmt_path,        \* a result to format: its path
    fmt_result,      \* a result to format: its (digest, size) list
    fmt_alg,         \* a result to format: its algorithm id
    fmt_line,        \* the line format_a_result made of it (None before)
    fmt_parsed,      \* what parse_line made of that line (None before)
    cs_lines,        \* a chunksums file to read: its lines
    cs_out,          \* what list(parse_chunksums(file)) made of it (None before)
    alg_token,       \* a size token or a hash name to look up
    alg_out          \* what get_chunker and get_hasher made of it (None before)

fileVars == << chunksums, incr >>
mainVars == << args, run, prev, skip_func, output_file, fs >>
spVars   == << sp_i >>
prodVars == << prod_pc, prod_i >>
workVars == << wpc, wpath >>
collVars == << cpc >>
pollVars == << poll_i, all_idle >>
cdcVars  == << chunker, supplied, yielded, raised, stream, result, fpc,
               last_call >>
fmtVars  == << fmt_path, fmt_result, fmt_alg, fmt_line, fmt_parsed >>
\* what no step of a run of the command touches
pureVars == << cs_lines, cs_out, alg_token, alg_out >>
otherVars == << cdcVars, fmtVars, pureVars >>
\* what no step on a Chunker or on a line touches
runVars  == << mainVars, fileVars, pc, spVars, total, progress_n, queue_path,
               queue_sums, queue_progress, prodVars, workVars, collVars, mpc,
               busy_events, stop_consumers, stop_collector, pollVars >>

vars == << runVars, otherVars >>

Workers == 1..NumWorkers

\* capacities of the three queues
queue_path_max     == 10
queue_sums_max     == 10
queue_progress_max == 10

\* the lines put in front of what the file holds
WriteLines_prepend(lines) ==
    LET entries == [i \in 1..Len(lines) |-> Entry(lines[i], run)]
    IN  IF output_file = "F"
        THEN /\ chunksums' = [chunksums EXCEPT !.lines = entries \o @]
             /\ UNCHANGED incr
        ELSE /\ incr' = [incr EXCEPT !.lines = entries \o @]
             /\ UNCHANGED chunksums

\* print(line, file=output_file, flush=True) for every line of lines
WriteLines(lines) ==
    LET entries == [i \in 1..Len(lines) |-> Entry(lines[i], run)]
    IN  IF output_file = "F"
        THEN /\ chunksums' = [chunksums EXCEPT !.lines = @ \o entries]
             /\ UNCHANGED incr
        ELSE /\ incr' = [incr EXCEPT !.lines = @ \o entries]
             /\ UNCHANGED chunksums

\* the state of the processes of compute_mp before any of them is started
Idle ==
    /\ sp_i = 1
    /\ total = 0
    /\ progress_n = 0
    /\ queue_path = << >>
    /\ queue_sums = << >>
    /\ queue_progress = << >>
    /\ prod_pc = "idle"
    /\ prod_i = 1
    /\ wpc = [w \in Workers |-> "idle"]
    /\ wpath = [w \in Workers |-> NoneText]
    /\ cpc = "idle"
    /\ mpc = "idle"
    /\ busy_events = [i \in 0..NumWorkers |-> FALSE]
    /\ stop_consumers = FALSE
    /\ stop_collector = FALSE
    /\ poll_i = 0
    /\ all_idle = TRUE

\* the command lines of a run: -f F always, -m and -i or not, the paths
ArgSets ==
    [paths : SeqsUpTo(Paths, MaxPaths), multi_process : BOOLEAN, incr_file : BOOLEAN]

\* the chunksums file before the first run: absent, or left by earlier runs
PriorFiles ==
    { NoFile } \cup { [exists |-> TRUE, lines |-> PriorLines(S)] : S \in SUBSET Paths }

\* no run before this one
NoRun == [args |-> [paths |-> << >>, multi_process |-> FALSE, incr_file |-> FALSE],
          chunksums |-> NoFile, fs |-> AllFiles]

\* parse_line was not called
NoneParsed == [ok |-> FALSE, none |-> TRUE]

\* parse_chunksums, get_chunker and get_hasher were not called
NoneOut == [none |-> TRUE]

\* no chunksums file is read and no token is looked up
PureOff ==
    /\ cs_lines = << >>
    /\ cs_out = NoneOut
    /\ alg_token = [kind |-> "none", text |-> << >>]
    /\ alg_out = NoneOut

\* no Chunker, no compute_file and no line is looked at
CdcFmtOff ==
    /\ chunker = NewChunker
    /\ supplied = << >>
    /\ yielded = << >>
    /\ raised = FALSE
    /\ stream = << >>
    /\ result = << >>
    /\ fpc = "off"
    /\ last_call = "new"
    /\ fmt_path = << >>
    /\ fmt_result = << >>
    /\ fmt_alg = DefaultAlg
    /\ fmt_line = NoneText
    /\ fmt_parsed = NoneParsed

\* nothing but a run of the command is looked at
OtherOff ==
    /\ CdcFmtOff
    /\ PureOff

Init ==
    /\ OtherOff
    /\ args \in ArgSets
    /\ run = 1
    /\ prev = NoRun
    /\ fs = AllFiles
    /\ chunksums \in PriorFiles
    /\ incr = NoFile
    /\ skip_func = {}
    /\ output_file = "None"
    /\ pc = "main"
    /\ Idle

\* the file main opens output_file on: the -i file when one is given
output_target_chunksums(a) == "F"

output_target(a) == IF a.incr_file THEN "I" ELSE "F"

\* the mode of open(args.chunksums_file, ...) whatever the file holds
open_mode_truncate(file_exists) == "w"

\* the mode main opens the chunksums file in: "a" when it exists, else "w"
open_mode(file_exists) == IF file_exists THEN "a" ELSE "w"

\* open(name, mode) for writing: "w" creates or truncates, "a" creates or keeps
open(file, mode) ==
    [exists |-> TRUE, lines |-> IF mode = "w" THEN << >> ELSE file.lines]

(***************************************************************************)
(* cli.py: main, from the parsed arguments to the call of compute or       *)
(* compute_mp.                                                             *)
(***************************************************************************)
main ==
    /\ pc = "main"
    /\ IF args.paths = << >>
       THEN \* parser.print_help(); sys.exit()
            /\ pc' = "done"
            /\ UNCHANGED << skip_func, output_file, chunksums, incr >>
       ELSE IF chunksums.exists /\ ParseRaises(chunksums.lines)
       THEN \* included_in_chunksums raises: the exception ends main
            /\ pc' = "raised"
            /\ UNCHANGED << skip_func, output_file, chunksums, incr >>
       ELSE /\ skip_func' = IF chunksums.exists
                            THEN included_in_chunksums(chunksums.lines)
                            ELSE {}
            /\ output_file' = output_target(args)
            /\ IF output_target(args) = "I"
               THEN /\ incr' = open(incr, "a")
                    /\ UNCHANGED chunksums
               ELSE /\ chunksums' = open(chunksums, open_mode(chunksums.exists))
                    /\ UNCHANGED incr
            /\ pc' = IF args.multi_process THEN "compute_mp" ELSE "compute"
    /\ UNCHANGED << otherVars, args, run, prev, fs, spVars, total, progress_n,
                    queue_path, queue_sums, queue_progress, prodVars, workVars,
                    collVars, mpc, busy_events, stop_consumers, stop_collector,
                    pollVars >>

(***************************************************************************)
(* chunksum.py: compute and walk, the single-process orchestrator          *)
(***************************************************************************)
compute ==
    /\ pc = "compute"
    /\ total' = SumSizes(args.paths, fs)
    /\ sp_i' = 1
    /\ pc' = "walk"
    /\ UNCHANGED << otherVars, mainVars, fileVars, progress_n, queue_path, queue_sums,
                    queue_progress, prodVars, workVars, collVars, mpc, busy_events,
                    stop_consumers, stop_collector, pollVars >>

\* one turn of the loop of walk over iter_files(paths): compute_one_file on
\* the next path; an exception it raises ends walk, compute and main
walk ==
    /\ pc = "walk"
    /\ IF sp_i > Len(iter_files(args.paths, fs))
       THEN /\ pc' = "done"
            /\ UNCHANGED << sp_i, progress_n, fileVars >>
       ELSE LET r == compute_one_file(iter_files(args.paths, fs)[sp_i],
                                      output_file, skip_func, fs)
            IN  IF r.raises
                THEN /\ pc' = "raised"
                     /\ UNCHANGED << sp_i, progress_n, fileVars >>
                ELSE /\ WriteLines(r.printed)
                     /\ progress_n' = progress_n + r.size
                     /\ sp_i' = sp_i + 1
                     /\ pc' = pc
    /\ UNCHANGED << otherVars, mainVars, total, queue_path, queue_sums, queue_progress,
                    prodVars, workVars, collVars, mpc, busy_events,
                    stop_consumers, stop_collector, pollVars >>

(***************************************************************************)
(* mp.py: compute_mp, the multi-process orchestrator.  The driver starts   *)
(* the progress monitor, the workers, the collector and the producer.      *)
(***************************************************************************)
compute_mp_start ==
    /\ pc = "compute_mp"
    /\ total' = SumSizes(args.paths, fs)
    /\ mpc' = "run"
    /\ wpc' = [w \in Workers |-> "loop"]
    /\ cpc' = "loop"
    /\ prod_pc' = "run"
    /\ pc' = "join_producer"
    /\ UNCHANGED << otherVars, mainVars, fileVars, spVars, progress_n, queue_path,
                    queue_sums, queue_progress, prod_i, wpath, busy_events,
                    stop_consumers, stop_collector, pollVars >>

\* producer on a queue without a capacity
producer_unbounded ==
    /\ prod_pc = "run"
    /\ IF prod_i > Len(iter_files(args.paths, fs))
       THEN /\ prod_pc' = "done"
            /\ UNCHANGED << prod_i, queue_path >>
       ELSE /\ queue_path' = Append(queue_path, iter_files(args.paths, fs)[prod_i])
            /\ prod_i' = prod_i + 1
            /\ prod_pc' = prod_pc
    /\ UNCHANGED << otherVars, mainVars, fileVars, pc, spVars, total, progress_n,
                    queue_sums, queue_progress, workVars, collVars, mpc,
                    busy_events, stop_consumers, stop_collector, pollVars >>

\* producer: for path in iter: queue_path.put(path)
producer ==
    /\ prod_pc = "run"
    /\ IF prod_i > Len(iter_files(args.paths, fs))
       THEN /\ prod_pc' = "done"
            /\ UNCHANGED << prod_i, queue_path >>
       ELSE /\ Len(queue_path) < queue_path_max
            /\ queue_path' = Append(queue_path, iter_files(args.paths, fs)[prod_i])
            /\ prod_i' = prod_i + 1
            /\ prod_pc' = prod_pc
    /\ UNCHANGED << otherVars, mainVars, fileVars, pc, spVars, total, progress_n,
                    queue_sums, queue_progress, workVars, collVars, mpc,
                    busy_events, stop_consumers, stop_collector, pollVars >>

\* consumer: while not stop.is_set() or not queue_path.empty()
consumer_loop(w) ==
    /\ wpc[w] = "loop"
    /\ wpc' = [wpc EXCEPT ![w] = IF ~stop_consumers \/ queue_path # << >>
                                 THEN "get" ELSE "exit"]
    /\ UNCHANGED << otherVars, mainVars, fileVars, pc, spVars, total, progress_n,
                    queue_path, queue_sums, queue_progress, prodVars, wpath,
                    collVars, mpc, busy_events, stop_consumers, stop_collector,
                    pollVars >>

\* consumer: path = queue_path.get(timeout=0.001), or Empty and continue
consumer_get(w) ==
    /\ wpc[w] = "get"
    /\ IF queue_path # << >>
       THEN /\ wpath' = [wpath EXCEPT ![w] = Head(queue_path)]
            /\ queue_path' = Tail(queue_path)
            /\ wpc' = [wpc EXCEPT ![w] = "busy_set"]
       ELSE /\ wpc' = [wpc EXCEPT ![w] = "loop"]
            /\ UNCHANGED << wpath, queue_path >>
    /\ UNCHANGED << otherVars, mainVars, fileVars, pc, spVars, total, progress_n,
                    queue_sums, queue_progress, prodVars, collVars, mpc,
                    busy_events, stop_consumers, stop_collector, pollVars >>

\* consumer: busy.set()
consumer_busy_set(w) ==
    /\ wpc[w] = "busy_set"
    /\ busy_events' = [busy_events EXCEPT ![w] = TRUE]
    /\ wpc' = [wpc EXCEPT ![w] = "compute"]
    /\ UNCHANGED << otherVars, mainVars, fileVars, pc, spVars, total, progress_n,
                    queue_path, queue_sums, queue_progress, prodVars, wpath,
                    collVars, mpc, stop_consumers, stop_collector, pollVars >>

\* the call of compute_one_file with keywords that compute_one_file declares:
\* its body runs and prints the line to output_file
consumer_compute_bound(w) ==
    /\ wpc[w] = "compute"
    /\ WriteLines(compute_one_file(wpath[w], output_file, skip_func, fs).printed)
    /\ wpc' = [wpc EXCEPT ![w] = "raised"]
    /\ UNCHANGED << otherVars, mainVars, pc, spVars, total, progress_n,
                    queue_path, queue_sums, queue_progress, prodVars, wpath,
                    collVars, mpc, busy_events, stop_consumers, stop_collector,
                    pollVars >>

\* consumer: sums = compute_one_file(path, output_file=output_file,
\* update_progress=update_progress, alg_name=alg_name, skip_func=skip_func,
\* bar_position=index).  compute_one_file declares path, output_file,
\* progress_bar, alg_name and skip_func: the keywords update_progress and
\* bar_position match no parameter, so the call raises TypeError before the
\* body of compute_one_file runs.  consumer catches nothing: the worker
\* process ends here, holding its path, its busy flag still set; the rest of
\* the loop body (queue_sums.put, busy.clear) is never reached.
consumer_compute(w) ==
    /\ wpc[w] = "compute"
    /\ wpc' = [wpc EXCEPT ![w] = "raised"]
    /\ UNCHANGED << otherVars, mainVars, fileVars, pc, spVars, total, progress_n,
                    queue_path, queue_sums, queue_progress, prodVars, wpath,
                    collVars, mpc, busy_events, stop_consumers, stop_collector,
                    pollVars >>

\* while not queue_sums.empty(): the loop of collector without its stop flag
collector_loop_nostop ==
    /\ cpc = "loop"
    /\ cpc' = IF queue_sums # << >> THEN "get" ELSE "exit"
    /\ UNCHANGED << otherVars, mainVars, fileVars, pc, spVars, total, progress_n,
                    queue_path, queue_sums, queue_progress, prodVars, workVars,
                    mpc, busy_events, stop_consumers, stop_collector, pollVars >>

\* collector: while not stop.is_set() or not queue_sums.empty()
collector_loop ==
    /\ cpc = "loop"
    /\ cpc' = IF ~stop_collector \/ queue_sums # << >> THEN "get" ELSE "exit"
    /\ UNCHANGED << otherVars, mainVars, fileVars, pc, spVars, total, progress_n,
                    queue_path, queue_sums, queue_progress, prodVars, workVars,
                    mpc, busy_events, stop_consumers, stop_collector, pollVars >>

\* collector: sums = queue_sums.get(timeout=0.001), or Empty and continue;
\* busy.set(); print(sums, file=output_file, flush=True); busy.clear()
collector_get ==
    /\ cpc = "get"
    /\ IF queue_sums # << >>
       THEN /\ WriteLines(<< Head(queue_sums) >>)
            /\ queue_sums' = Tail(queue_sums)
       ELSE UNCHANGED << fileVars, queue_sums >>
    /\ cpc' = "loop"
    /\ UNCHANGED << otherVars, mainVars, pc, spVars, total, progress_n,
                    queue_path, queue_progress, prodVars, workVars, mpc,
                    busy_events, stop_consumers, stop_collector, pollVars >>

\* progress_monitor: one turn of while True: size = queue_progress.get(
\* timeout=0.001), or Empty and continue; progress_bar.update(size); break
\* when total == progress_bar.n
progress_monitor ==
    /\ mpc = "run"
    /\ IF queue_progress # << >>
       THEN /\ progress_n' = progress_n + Head(queue_progress)
            /\ queue_progress' = Tail(queue_progress)
            /\ mpc' = IF total = progress_n + Head(queue_progress)
                      THEN "done" ELSE "run"
       ELSE UNCHANGED << progress_n, queue_progress, mpc >>
    /\ UNCHANGED << otherVars, mainVars, fileVars, pc, spVars, total, queue_path,
                    queue_sums, prodVars, workVars, collVars, busy_events,
                    stop_consumers, stop_collector, pollVars >>

\* compute_mp: proc_producer.join(), then wait_consumers is entered
join_producer ==
    /\ pc = "join_producer"
    /\ prod_pc = "done"
    /\ pc' = "wait_consumers"
    /\ poll_i' = 0
    /\ all_idle' = TRUE
    /\ UNCHANGED << otherVars, mainVars, fileVars, spVars, total, progress_n,
                    queue_path, queue_sums, queue_progress, prodVars, workVars,
                    collVars, mpc, busy_events, stop_consumers, stop_collector >>

\* wait_consumers: all([not e.is_set() for e in busy_events]), one flag read
wait_consumers_read ==
    /\ pc = "wait_consumers"
    /\ poll_i <= NumWorkers
    /\ all_idle' = (all_idle /\ ~busy_events[poll_i])
    /\ poll_i' = poll_i + 1
    /\ pc' = pc
    /\ UNCHANGED << otherVars, mainVars, fileVars, spVars, total, progress_n,
                    queue_path, queue_sums, queue_progress, prodVars, workVars,
                    collVars, mpc, busy_events, stop_consumers, stop_collector >>

\* wait_consumers: if all_idle and queue_path.empty(): stop.set(); else sleep
wait_consumers_decide ==
    /\ pc = "wait_consumers"
    /\ poll_i > NumWorkers
    /\ IF all_idle /\ queue_path = << >>
       THEN /\ stop_consumers' = TRUE
            /\ pc' = "join_consumers"
       ELSE /\ pc' = pc
            /\ UNCHANGED stop_consumers
    /\ poll_i' = 0
    /\ all_idle' = TRUE
    /\ UNCHANGED << otherVars, mainVars, fileVars, spVars, total, progress_n,
                    queue_path, queue_sums, queue_progress, prodVars, workVars,
                    collVars, mpc, busy_events, stop_collector >>

\* stop_collector.set() without the join of the workers before it
join_consumers_nojoin ==
    /\ pc = "join_consumers"
    /\ stop_collector' = TRUE
    /\ pc' = "join_collector"
    /\ UNCHANGED << otherVars, mainVars, fileVars, spVars, total, progress_n,
                    queue_path, queue_sums, queue_progress, prodVars, workVars,
                    collVars, mpc, busy_events, stop_consumers, pollVars >>

\* wait_consumers: [p.join() for p in consumers], which a worker that returned
\* and a worker that raised both let pass; compute_mp: stop_collector.set()
join_consumers ==
    /\ pc = "join_consumers"
    /\ \A w \in Workers : wpc[w] \in { "exit", "raised" }
    /\ stop_collector' = TRUE
    /\ pc' = "join_collector"
    /\ UNCHANGED << otherVars, mainVars, fileVars, spVars, total, progress_n,
                    queue_path, queue_sums, queue_progress, prodVars, workVars,
                    collVars, mpc, busy_events, stop_consumers, pollVars >>

\* compute_mp: proc_collector.join(); compute_mp and main return
join_collector ==
    /\ pc = "join_collector"
    /\ cpc = "exit"
    /\ pc' = "done"
    /\ UNCHANGED << otherVars, mainVars, fileVars, spVars, total, progress_n,
                    queue_path, queue_sums, queue_progress, prodVars, workVars,
                    collVars, mpc, busy_events, stop_consumers, stop_collector,
                    pollVars >>

consumer(w) ==
    \/ consumer_loop(w)
    \/ consumer_get(w)
    \/ consumer_busy_set(w)
    \/ consumer_compute(w)

collector ==
    \/ collector_loop
    \/ collector_get

wait_consumers ==
    \/ wait_consumers_read
    \/ wait_consumers_decide
    \/ join_consumers

compute_mp ==
    \/ compute_mp_start
    \/ producer
    \/ \E w \in Workers : consumer(w)
    \/ collector
    \/ progress_monitor
    \/ join_producer
    \/ wait_consumers
    \/ join_collector

Next ==
    \/ main
    \/ compute
    \/ walk
    \/ compute_mp

Spec == Init /\ [][Next]_vars

\* the steps of the driver process: main and what it calls
driver ==
    \/ main
    \/ compute
    \/ walk
    \/ compute_mp_start
    \/ join_producer
    \/ wait_consumers
    \/ join_collector

\* the scheduling of the processes: the driver and each child process (the
\* producer, every worker, the collector, the progress monitor) is an
\* operating-system process of its own and keeps taking steps while it has
\* one to take
Fairness ==
    /\ WF_vars(driver)
    /\ WF_vars(producer)
    /\ \A w \in Workers : WF_vars(consumer(w))
    /\ WF_vars(collector)
    /\ WF_vars(progress_monitor)

\* runs over one or two paths, started without a chunksums file
InitLive ==
    /\ Init
    /\ chunksums = NoFile
    /\ args.paths # << >>
    /\ ~args.incr_file

SpecLive == InitLive /\ [][Next]_vars /\ Fairness

(***************************************************************************)
(* The command run again: main is invoked a second time on the files the   *)
(* run before it left; the input files are unchanged.                      *)
(***************************************************************************)
\* number of invocations of the command
MaxRuns == 2

rerun_with(argsets) ==
    /\ pc \in { "done", "raised" }
    /\ run < MaxRuns
    /\ run' = run + 1
    /\ prev' = [args |-> args, chunksums |-> chunksums, fs |-> fs]
    /\ args' \in argsets
    /\ skip_func' = {}
    /\ output_file' = "None"
    /\ pc' = "main"
    /\ sp_i' = 1
    /\ total' = 0
    /\ progress_n' = 0
    /\ queue_path' = << >>
    /\ queue_sums' = << >>
    /\ queue_progress' = << >>
    /\ prod_pc' = "idle"
    /\ prod_i' = 1
    /\ wpc' = [w \in Workers |-> "idle"]
    /\ wpath' = [w \in Workers |-> NoneText]
    /\ cpc' = "idle"
    /\ mpc' = "idle"
    /\ busy_events' = [i \in 0..NumWorkers |-> FALSE]
    /\ stop_consumers' = FALSE
    /\ stop_collector' = FALSE
    /\ poll_i' = 0
    /\ all_idle' = TRUE
    /\ UNCHANGED << otherVars, fileVars, fs >>

\* the second invocation, with any command line over files
rerun == rerun_with(ArgSets)

NextMain ==
    \/ Next
    \/ rerun

SpecMain == Init /\ [][NextMain]_vars

(***************************************************************************)
(* cdc.py: one Chunker object under any sequence of calls of update, of    *)
(* chunks (iterated to its end) and of reset.                              *)
(***************************************************************************)
\* byte values: 0 is no boundary of the splitter, 1 is one
Bytes == { 0, 1 }
\* longest message given to one update
MaxMsg == 2
\* most bytes given to update between two resets
MaxSupplied == 4

\* no command is run
RunOff ==
    /\ args = NoRun.args
    /\ run = 1
    /\ prev = NoRun
    /\ fs = AllFiles
    /\ chunksums = NoFile
    /\ incr = NoFile
    /\ skip_func = {}
    /\ output_file = "None"
    /\ pc = "off"
    /\ Idle

\* Chunker.update(message)
cdc_update(message) ==
    /\ Len(supplied) + Len(message) <= MaxSupplied
    /\ IF UpdateRaises(chunker)
       THEN /\ raised' = TRUE
            /\ UNCHANGED << chunker, supplied >>
       ELSE /\ chunker' = ChunkerUpdate(chunker, message)
            /\ supplied' = supplied \o message
            /\ raised' = FALSE
    /\ last_call' = "update"
    /\ UNCHANGED << yielded, stream, result, fpc, fmtVars, pureVars, runVars >>

\* list(Chunker.chunks)
cdc_chunks ==
    /\ yielded' = yielded \o ChunksYielded(chunker)
    /\ chunker' = ChunkerChunks(chunker)
    /\ raised' = FALSE
    /\ last_call' = "chunks"
    /\ UNCHANGED << supplied, stream, result, fpc, fmtVars, pureVars, runVars >>

\* Chunker.reset()
cdc_reset ==
    /\ chunker' = ChunkerReset(chunker)
    /\ supplied' = << >>
    /\ yielded' = << >>
    /\ raised' = FALSE
    /\ last_call' = "reset"
    /\ UNCHANGED << stream, result, fpc, fmtVars, pureVars, runVars >>

InitChunker ==
    /\ RunOff
    /\ OtherOff

NextChunker ==
    \/ \E message \in SeqsUpTo(Bytes, MaxMsg) : cdc_update(message)
    \/ cdc_chunks
    \/ cdc_reset

SpecChunker == InitChunker /\ [][NextChunker]_vars

(***************************************************************************)
(* chunksum.py: compute_file step by step.  file.read(size) returns at     *)
(* most size bytes and, before the end of the stream, at least one.        *)
(***************************************************************************)
\* longest stream
MaxLen == 6

\* for data in iter_: chunker.update(data), or the end of the stream
file_read ==
    /\ fpc = "read"
    /\ IF stream = << >>
       THEN /\ fpc' = "tail"
            /\ UNCHANGED << chunker, supplied, stream, raised, last_call >>
       ELSE \E n \in 1..Min2(buffer_size, Len(stream)) :
               LET data == SubSeq(stream, 1, n)
               IN  /\ stream' = Drop(stream, n + 1)
                   /\ supplied' = supplied \o data
                   /\ last_call' = "update"
                   /\ IF UpdateRaises(chunker)
                      THEN /\ raised' = TRUE
                           /\ fpc' = "raised"
                           /\ UNCHANGED chunker
                      ELSE /\ chunker' = ChunkerUpdate(chunker, data)
                           /\ fpc' = "chunks"
                           /\ UNCHANGED raised
    /\ UNCHANGED << yielded, result, fmtVars, pureVars, runVars >>

\* for chunk in chunker.chunks: result.append(hash_digest_size(chunk, ...))
file_chunks ==
    /\ fpc = "chunks"
    /\ result' = result \o HashAll(ChunksYielded(chunker), HasherNameOf(DefaultAlg))
    /\ yielded' = yielded \o ChunksYielded(chunker)
    /\ chunker' = ChunkerChunks(chunker)
    /\ last_call' = "chunks"
    /\ fpc' = "read"
    /\ UNCHANGED << supplied, stream, raised, fmtVars, pureVars, runVars >>

\* compute_file that forgets the tail
file_tail_dropped ==
    /\ fpc = "tail"
    /\ fpc' = "done"
    /\ UNCHANGED << result, chunker, supplied, yielded, stream, raised, last_call,
                    fmtVars, pureVars, runVars >>

\* if chunker.tail: result.append(hash_digest_size(chunker.tail, ...)); return
file_tail ==
    /\ fpc = "tail"
    /\ result' = IF Truthy(chunker._tail)
                 THEN Append(result, hash_digest_size(chunker._tail,
                                                      HasherNameOf(DefaultAlg)))
                 ELSE result
    /\ fpc' = "done"
    /\ UNCHANGED << chunker, supplied, yielded, stream, raised, last_call,
                    fmtVars, pureVars, runVars >>

InitFile ==
    /\ RunOff
    /\ PureOff
    /\ chunker = NewChunker
    /\ supplied = << >>
    /\ yielded = << >>
    /\ raised = FALSE
    /\ stream \in SeqsUpTo(Bytes, MaxLen)
    /\ result = << >>
    /\ fpc = "read"
    /\ last_call = "new"
    /\ fmt_path = << >>
    /\ fmt_result = << >>
    /\ fmt_alg = DefaultAlg
    /\ fmt_line = NoneText
    /\ fmt_parsed = NoneParsed

NextFile ==
    \/ file_read
    \/ file_chunks
    \/ file_tail

SpecFile == InitFile /\ [][NextFile]_vars

(***************************************************************************)
(* One result through format_a_result and the line through parse_line.     *)
(***************************************************************************)
\* longest path of a result
MaxPathLen == 4

PathChars == { "a", " ", "!" }

AlgNames == { DefaultAlg, << "f", "c", "m", "0", "b", "l", "a", "k", "e", "2", "b" >> }

\* results of compute_file: of an empty file, of one chunk, of two chunks
ResultSamples ==
    { << >>,
      << << << 162, 7 >>, 1 >> >>,
      << << << 10, 255 >>, 65536 >>, << << 0, 171 >>, 28928 >> >> }

format_result ==
    /\ fmt_line = NoneText
    /\ fmt_line' = format_a_result(fmt_path, fmt_result, fmt_alg)
    /\ UNCHANGED << fmt_path, fmt_result, fmt_alg, fmt_parsed, cdcVars, pureVars, runVars >>

parse_result ==
    /\ fmt_line # NoneText
    /\ fmt_parsed = NoneParsed
    /\ fmt_parsed' = parse_line(fmt_line)
    /\ UNCHANGED << fmt_path, fmt_result, fmt_alg, fmt_line, cdcVars, pureVars, runVars >>

InitParse ==
    /\ RunOff
    /\ PureOff
    /\ chunker = NewChunker
    /\ supplied = << >>
    /\ yielded = << >>
    /\ raised = FALSE
    /\ stream = << >>
    /\ result = << >>
    /\ fpc = "off"
    /\ last_call = "new"
    /\ fmt_path \in SeqsUpTo(PathChars, MaxPathLen)
    /\ fmt_result \in ResultSamples
    /\ fmt_alg \in AlgNames
    /\ fmt_line = NoneText
    /\ fmt_parsed = NoneParsed

NextParse ==
    \/ format_result
    \/ parse_result

SpecParse == InitParse /\ [][NextParse]_vars

(***************************************************************************)
(* parser.py: parse_chunksums read to its end, list(parse_chunksums(file)),*)
(* on files of well-formed, empty and malformed lines.                     *)
(***************************************************************************)
\* most lines of a file
MaxLines == 3

\* lines that are not chunksums lines: one field; two fields, without and
\* with '!'; three fields, no '!'; two '!'; a chunk without ':'; a chunk
\* whose size is no number
MalformedSamples ==
    { << "x" >>,
      << "x", " ", " ", "a" >>,
      << "x", " ", " ", "k", "!" >>,
      << "x", " ", " ", "a", " ", " ", "k" >>,
      << "x", " ", " ", "a", " ", " ", "k", "!", "a", "b", ":", "1", "!", "2" >>,
      << "x", " ", " ", "a", " ", " ", "k", "!", "a", "b" >>,
      << "x", " ", " ", "a", " ", " ", "k", "!", "a", "b", ":", "z" >> }

\* lines as the program writes them, and lines of white space only
LineSamples ==
    { LineOf(PathA), LineOf(PathB), << >>, << " ", "\n" >> } \cup MalformedSamples

\* list(parse_chunksums(file)): the parsed lines up to the first line on which
\* parse_line raises; the exception leaves the generator and list()
list_parse_chunksums(lines) ==
    LET all   == parse_chunksums(lines)
        bad   == { i \in 1..Len(all) : ~all[i].ok }
        first == IF bad = {} THEN Len(all) + 1
                 ELSE CHOOSE i \in bad : \A j \in bad : i <= j
    IN  [raised |-> bad # {}, sums |-> SubSeq(all, 1, first - 1)]

read_chunksums ==
    /\ cs_out = NoneOut
    /\ cs_out' = list_parse_chunksums(cs_lines)
    /\ UNCHANGED << cs_lines, alg_token, alg_out, cdcVars, fmtVars, runVars >>

InitRead ==
    /\ RunOff
    /\ CdcFmtOff
    /\ cs_lines \in { [i \in 1..Len(q) |-> Entry(q[i], 0)] :
                         q \in SeqsUpTo(LineSamples, MaxLines) }
    /\ cs_out = NoneOut
    /\ alg_token = [kind |-> "none", text |-> << >>]
    /\ alg_out = NoneOut

NextRead == read_chunksums

SpecRead == InitRead /\ [][NextRead]_vars

(***************************************************************************)
(* chunksum.py: get_chunker, and hash.py: get_hasher, on tokens and names  *)
(* of any spelling.  A raised exception is the record [ok |-> FALSE].      *)
(***************************************************************************)
\* longest size token
MaxTokenLen == 3
\* most characters after the stem of a hash name
MaxSuffixLen == 2

\* str.lower() of one character
lower_char(c) ==
    CASE c = "K" -> "k" [] c = "M" -> "m" [] c = "G" -> "g"
      [] c = "S" -> "s" [] c = "B" -> "b" [] OTHER -> c

\* str.lower()
lower(text) == [i \in 1..Len(text) |-> lower_char(text[i])]

\* \d+ at the start of text: the longest run of digits there
RECURSIVE LeadingDigits(_)
LeadingDigits(text) ==
    IF text # << >> /\ IsDecimal(<< text[1] >>)
    THEN << text[1] >> \o LeadingDigits(Tail(text))
    ELSE << >>

\* re.match(r"(?P<unit>k|m|g)(?P<power>\d)", size_name, re.IGNORECASE) looks
\* at the start of size_name only; the Chunker has avg = UNITS[unit] *
\* 2 ** power
get_chunker(size_name) ==
    IF /\ Len(size_name) >= 2
       /\ lower_char(size_name[1]) \in { "k", "m", "g" }
       /\ IsDecimal(<< size_name[2] >>)
    THEN [ok |-> TRUE, unit |-> lower_char(size_name[1]),
          power |-> int(<< size_name[2] >>)]
    ELSE [ok |-> FALSE]

\* the names of HASH_FUNCTIONS
HashNames ==
    { << "s", "h", "a", "2" >>,
      << "b", "l", "a", "k", "e", "2", "b" >>,
      << "b", "l", "a", "k", "e", "2", "s" >> }

\* the largest digest_size hashlib takes
MaxDigestSize(hash_name) ==
    IF hash_name = << "b", "l", "a", "k", "e", "2", "b" >> THEN 64 ELSE 32

\* re.match(r"(?P<hash_name>sha2|blake2b|blake2s)(?P<digest_size>\d+)?",
\* name.lower()) looks at the start of the name only; sha2 with a digest
\* size raises, and so does hashlib on a digest size it does not take
get_hasher(name) ==
    LET low   == lower(name)
        stems == { h \in HashNames : Len(low) >= Len(h) /\ SubSeq(low, 1, Len(h)) = h }
    IN  IF stems = {} THEN [ok |-> FALSE]
        ELSE LET hash_name   == CHOOSE h \in stems : TRUE
                 digest_size == LeadingDigits(Drop(low, Len(hash_name) + 1))
             IN  IF digest_size = << >>
                 THEN [ok |-> TRUE, hash_name |-> hash_name, digest_size |-> 0]
                 ELSE IF hash_name = << "s", "h", "a", "2" >>
                 THEN [ok |-> FALSE]
                 ELSE IF int(digest_size) \in 1..MaxDigestSize(hash_name)
                 THEN [ok |-> TRUE, hash_name |-> hash_name,
                       digest_size |-> int(digest_size)]
                 ELSE [ok |-> FALSE]

\* characters of the size tokens
TokenChars == { "k", "K", "m", "g", "x", "0", "9" }

\* stems of the hash names: the three of HASH_FUNCTIONS, in any case, and
\* names that are none of them
NameStems ==
    HashNames \cup { << "S", "H", "A", "2" >>,
                     << "B", "l", "a", "k", "e", "2", "S" >>,
                     << "b", "l", "a", "k", "e", "2" >>,
                     << "s", "h", "a" >>,
                     << "x", "s", "h", "a", "2" >> }

\* characters after the stem
SuffixChars == { "3", "2", "0", "x" }

call_get_chunker ==
    /\ alg_out = NoneOut
    /\ alg_token.kind = "size"
    /\ alg_out' = get_chunker(alg_token.text)
    /\ UNCHANGED << cs_lines, cs_out, alg_token, cdcVars, fmtVars, runVars >>

call_get_hasher ==
    /\ alg_out = NoneOut
    /\ alg_token.kind = "hash"
    /\ alg_out' = get_hasher(alg_token.text)
    /\ UNCHANGED << cs_lines, cs_out, alg_token, cdcVars, fmtVars, runVars >>

InitAlg ==
    /\ RunOff
    /\ CdcFmtOff
    /\ cs_lines = << >>
    /\ cs_out = NoneOut
    /\ alg_token \in
          { [kind |-> "size", text |-> t] : t \in SeqsUpTo(TokenChars, MaxTokenLen) }
          \cup { [kind |-> "hash", text |-> stem \o suffix] :
                    stem \in NameStems, suffix \in SeqsUpTo(SuffixChars, MaxSuffixLen) }
    /\ alg_out = NoneOut

NextAlg ==
    \/ call_get_chunker
    \/ call_get_hasher

SpecAlg == InitAlg /\ [][NextAlg]_vars

(***************************************************************************)
(* The command also run on one path more than path_q and the workers of    *)
(* the multi-process orchestrator can hold.                                *)
(***************************************************************************)
\* command lines with -m whose enumeration is longer than path_q and the workers
LongArgSets ==
    { [paths |-> [i \in 1..(queue_path_max + NumWorkers + 1) |-> p],
       multi_process |-> TRUE, incr_file |-> FALSE] : p \in Paths }

InitCap ==
    /\ OtherOff
    /\ args \in ArgSets \cup LongArgSets
    /\ run = 1
    /\ prev = NoRun
    /\ fs = AllFiles
    /\ chunksums \in PriorFiles
    /\ incr = NoFile
    /\ skip_func = {}
    /\ output_file = "None"
    /\ pc = "main"
    /\ Idle

SpecCap == InitCap /\ [][Next]_vars

(***************************************************************************)
(* Runs over a directory and over files that are missing or unreadable,    *)
(* with files created between two runs.                                    *)
(***************************************************************************)
\* single-process command lines over the files and the directory
ArgSetsSp ==
    { [paths |-> q, multi_process |-> FALSE, incr_file |-> i] :
          q \in SeqsUpTo(Paths \cup { DirPath }, MaxPaths), i \in BOOLEAN }

\* the same, and -m with one path
ArgSetsFs ==
    ArgSetsSp
    \cup { [paths |-> << p >>, multi_process |-> TRUE, incr_file |-> FALSE] :
              p \in Paths \cup { DirPath } }

InitFs ==
    /\ OtherOff
    /\ args \in ArgSetsFs
    /\ run = 1
    /\ prev = NoRun
    /\ fs \in [Paths -> FileStates]
    /\ chunksums \in PriorFiles
    /\ incr = NoFile
    /\ skip_func = {}
    /\ output_file = "None"
    /\ pc = "main"
    /\ Idle

\* between two runs, before main of the later run looks at anything, a file
\* that did not exist is written (prev.fs is what the earlier run saw)
create_file ==
    /\ pc = "main"
    /\ run > 1
    /\ \E p \in Paths :
          /\ fs[p] = "absent"
          /\ fs' = [fs EXCEPT ![p] = "file"]
    /\ UNCHANGED << otherVars, args, run, prev, skip_func, output_file, fileVars,
                    pc, spVars, total, progress_n, queue_path, queue_sums,
                    queue_progress, prodVars, workVars, collVars, mpc,
                    busy_events, stop_consumers, stop_collector, pollVars >>

\* the next invocation: single-process over the same paths, with -i or not
rerun_fs ==
    rerun_with({ [paths |-> args.paths, multi_process |-> FALSE, incr_file |-> i] :
                     i \in BOOLEAN })

NextFs ==
    \/ Next
    \/ create_file
    \/ rerun_fs

SpecFs == InitFs /\ [][NextFs]_vars

\* runs over the directory alone, single-process and multi-process, started
\* without a chunksums file; the directory holds any of its files or none
InitLiveFs ==
    /\ InitFs
    /\ chunksums = NoFile
    /\ args.paths = << DirPath >>
    /\ ~args.incr_file

SpecLiveFs == InitLiveFs /\ [][Next]_vars /\ Fairness

(***************************************************************************)
(* What a run has written, and what the single-process orchestrator writes *)
(***************************************************************************)
\* the lines this run has written, to either file
Written ==
    LET mine == SelectSeq(chunksums.lines \o incr.lines, LAMBDA e : e.run = run)
    IN  [i \in 1..Len(mine) |-> mine[i].line]

\* the lines the chunksums file held before this run
Prior ==
    LET old == SelectSeq(chunksums.lines, LAMBDA e : e.run < run)
    IN  { old[i].line : i \in 1..Len(old) }

\* the enumeration of the paths of this run
Enumerated == iter_files(args.paths, fs)

RECURSIVE sp_run(_, _, _)
\* the lines walk prints for an enumeration, in order, up to the first path
\* on which compute_one_file raises
sp_run(paths, out, skip) ==
    IF paths = << >> THEN << >>
    ELSE LET r == compute_one_file(paths[1], out, skip, fs)
         IN  IF r.raises THEN << >>
             ELSE r.printed \o sp_run(Tail(paths), out, skip)

\* a worker process has ended: consumer returned, or an exception ended it
Ended(w) == wpc[w] \in { "exit", "raised" }

\* the multi-process run will write nothing more: compute_mp has returned, or
\* every path has been dequeued and every worker holding one has ended
MpSettled ==
    \/ pc = "done"
    \/ /\ prod_pc = "done"
       /\ queue_path = << >>
       /\ queue_sums = << >>
       /\ \A w \in Workers : wpath[w] # NoneText => Ended(w)

\* the single-process run, once done, has written what sp_run says
SpRunIsWalk ==
    (~args.multi_process /\ pc = "done" /\ args.paths # << >>)
        => Written = sp_run(Enumerated, output_file, skip_func)

(***************************************************************************)
(* C1: the multiset of lines the multi-process orchestrator writes equals  *)
(* the multiset the single-process orchestrator writes for the same paths  *)
(* and skip set: one line for each path that is not skipped.               *)
(***************************************************************************)
C1_MpEqualsSp ==
    (args.multi_process /\ args.paths # << >> /\ MpSettled)
        => SeqToBag(Written) = SeqToBag(sp_run(Enumerated, output_file, skip_func))

(***************************************************************************)
(* C2: no path is lost.  A worker process ends only with the consumer-stop *)
(* flag set and path_q empty, and never while it holds a path it dequeued  *)
(* and did not finish.                                                     *)
(***************************************************************************)
C2_NoLostPaths ==
    \A w \in Workers :
        Ended(w) => stop_consumers /\ queue_path = << >> /\ wpath[w] = NoneText

(***************************************************************************)
(* C3: in the multi-process orchestrator no step of a worker changes the   *)
(* output files, so whatever the sink holds was written by the collector.  *)
(***************************************************************************)
C3_OnlyCollectorWrites ==
    [][(\E w \in Workers : consumer(w)) => UNCHANGED fileVars]_vars

\* a worker has made its call of compute_one_file with a file to print to, on
\* a path that is not skipped
C3_Witness ==
    /\ args.multi_process
    /\ output_file # "None"
    /\ \E w \in Workers :
          /\ wpc[w] = "raised"
          /\ wpath[w] # NoneText
          /\ wpath[w] \notin skip_func

(***************************************************************************)
(* C4: the paths waiting in path_q plus the paths a worker dequeued and    *)
(* did not finish never exceed the capacity of path_q plus the number of   *)
(* workers, and neither path_q nor result_q holds more items than its      *)
(* capacity of 10.                                                         *)
(***************************************************************************)
InFlight ==
    Len(queue_path) + Cardinality({ w \in Workers : wpath[w] # NoneText })

C4_BoundedInFlight ==
    /\ InFlight <= queue_path_max + NumWorkers
    /\ Len(queue_path) <= queue_path_max
    /\ Len(queue_sums) <= queue_sums_max

\* path_q is full, every worker holds a path and the producer has one more
C4_Witness ==
    /\ InFlight = queue_path_max + NumWorkers
    /\ Len(queue_path) = queue_path_max
    /\ prod_pc = "run"
    /\ prod_i <= Len(Enumerated)

(***************************************************************************)
(* C9: skip completeness, in both orchestrators.  skip_func answers true   *)
(* exactly for the paths of the lines of the prior chunksums file, so a    *)
(* path that is not in the prior file is not skipped; a run writes no line *)
(* for a path of the prior file, to the chunksums file or to the -i file;  *)
(* and the single-process run, when done, has written a line for every     *)
(* enumerated path that is not in the prior file.                          *)
(***************************************************************************)
C9_SkipComplete ==
    (pc \notin { "main", "raised" } /\ args.paths # << >>) =>
        /\ \A p \in Paths : (p \in skip_func) <=> (LineOf(p) \in Prior)
        /\ \A p \in Paths :
              LineOf(p) \in Prior => \A i \in DOMAIN Written : Written[i] # LineOf(p)
        /\ (pc = "done" /\ ~args.multi_process) =>
              \A i \in DOMAIN Enumerated :
                  LineOf(Enumerated[i]) \notin Prior
                      => \E j \in DOMAIN Written : Written[j] = LineOf(Enumerated[i])

\* a run with -i is done: one path was skipped, the other was written to the
\* -i file
C9_Witness ==
    /\ pc = "done"
    /\ args.incr_file
    /\ \E i, j \in DOMAIN Enumerated :
          /\ Enumerated[i] \in skip_func
          /\ Enumerated[j] \notin skip_func
    /\ incr.lines # << >>

(***************************************************************************)
(* C5: buffer-independence.  However the stream is cut into non-empty      *)
(* buffers, feeding them through update, iterating chunks to the end after *)
(* each update and taking the tail as the last chunk gives the chunks the  *)
(* splitter makes of the whole stream in one buffer.                       *)
(***************************************************************************)
\* the tail as the final chunk
TailChunk == IF Truthy(chunker._tail) THEN << chunker._tail >> ELSE << >>

AllChunks == yielded \o TailChunk

C5_BufferIndependence ==
    fpc \in { "tail", "done" } => AllChunks = chunk_func(supplied)

\* a stream of MaxLen bytes was read in buffers no longer than buffer_size,
\* more buffers than chunks, and was cut into several chunks
C5_Witness ==
    /\ fpc = "done"
    /\ Len(supplied) = MaxLen
    /\ Len(yielded) >= 1
    /\ \E i \in 1..Len(AllChunks) : Len(AllChunks[i]) > buffer_size

(***************************************************************************)
(* C6: the Chunker concatenation invariant.  After any sequence of update, *)
(* chunks and reset calls in which the chunks of the last update have been *)
(* iterated, the chunks yielded since the last reset followed by the tail  *)
(* are the bytes given to update since the last reset.                     *)
(***************************************************************************)
C6_ConcatInvariant ==
    last_call = "chunks" =>
        /\ chunker._tail # NoneBytes
        /\ concat(yielded) \o chunker._tail = supplied

(***************************************************************************)
(* C7: compute_file returns the (digest, length) pairs of the chunks of    *)
(* the stream in file order: the chunks concatenated are the stream, each  *)
(* pair is the digest and the length of its chunk, the lengths sum to the  *)
(* size of the stream, and an empty stream gives the empty list.           *)
(***************************************************************************)
RECURSIVE SumLengths(_)
SumLengths(pairs) ==
    IF pairs = << >> THEN 0 ELSE pairs[1][2] + SumLengths(Tail(pairs))

C7_ComputeFile ==
    fpc = "done" =>
        /\ SumLengths(result) = Len(supplied)
        /\ Len(result) = Len(AllChunks)
        /\ \A i \in 1..Len(result) :
              result[i] = hash_digest_size(AllChunks[i], HasherNameOf(DefaultAlg))
        /\ concat(AllChunks) = supplied
        /\ supplied = << >> => result = << >>

\* compute_file has returned several pairs for a stream of MaxLen bytes
C7_Witness ==
    /\ fpc = "done"
    /\ Len(supplied) = MaxLen
    /\ Len(result) >= 2
    /\ stream = << >>

(***************************************************************************)
(* C8: round trip.  For a well-formed result (its path does not end with a *)
(* space) parse_line of the formatted line returns the checksum, the path, *)
(* the algorithm id and the chunk list that were formatted, also when the  *)
(* path holds double spaces.                                               *)
(***************************************************************************)
WellFormed(path) == path = << >> \/ path[Len(path)] # " "

C8_RoundTrip ==
    (fmt_parsed # NoneParsed /\ WellFormed(fmt_path)) =>
        /\ fmt_parsed.ok
        /\ fmt_parsed.checksum
              = hex(list_hash([i \in 1..Len(fmt_result) |-> fmt_result[i][1]],
                              HasherNameOf(fmt_alg)))
        /\ fmt_parsed.path = fmt_path
        /\ fmt_parsed.alg_name = fmt_alg
        /\ fmt_parsed.chunks
              = [i \in 1..Len(fmt_result) |->
                    << hex(fmt_result[i][1]), fmt_result[i][2] >>]

\* a line was parsed whose path holds a double space, with two chunks
C8_Witness ==
    /\ fmt_parsed # NoneParsed
    /\ fmt_parsed.ok
    /\ WellFormed(fmt_path)
    /\ Find(fmt_path, SP2) # 0
    /\ Len(fmt_result) = 2

\* a path ending with a space does not come back
TrailingSpaceMisparsed ==
    (fmt_parsed # NoneParsed /\ fmt_path = << "a", " " >>) =>
        (fmt_parsed.ok /\ fmt_parsed.path # fmt_path)

(***************************************************************************)
(* C10: resumption idempotence.  After two runs with the same -f F, no -i, *)
(* over the same input paths, F is what the first run left: the second run *)
(* appends nothing.                                                        *)
(***************************************************************************)
SecondRunDone ==
    /\ run = 2
    /\ pc = "done"
    /\ args.paths # << >>
    /\ prev.args.paths = args.paths
    /\ ~prev.args.incr_file
    /\ ~args.incr_file

C10_ResumeIdempotent == SecondRunDone => chunksums = prev.chunksums

\* the same holds of two runs in the same mode
ResumeSameMode ==
    (SecondRunDone /\ prev.args.multi_process = args.multi_process)
        => chunksums = prev.chunksums

\* and of two runs of which the first is single-process
ResumeAfterSp ==
    (SecondRunDone /\ ~prev.args.multi_process) => chunksums = prev.chunksums

\* the text of the lines of a file
TextOf(file) == [i \in 1..Len(file.lines) |-> file.lines[i].line]

\* the command line `chunksum -f F d`, with -i I when incr_file
DirRun(incr_file) ==
    [paths |-> << DirPath >>, multi_process |-> FALSE, incr_file |-> incr_file]

\* run 1 was `chunksum -f F d` over the directory holding only PathA and left
\* F with the line of PathA; PathB was then added and run 2,
\* `chunksum -f F -i I d`, is done
IncrementalScenario ==
    /\ run = 2
    /\ pc = "done"
    /\ prev.args = DirRun(FALSE)
    /\ prev.fs = [p \in Paths |-> IF p = PathA THEN "file" ELSE "absent"]
    /\ TextOf(prev.chunksums) = << LineOf(PathA) >>
    /\ fs = AllFiles
    /\ args = DirRun(TRUE)

(***************************************************************************)
(* C11: after run 1 with -f F over a directory holding only testfile and   *)
(* run 2 with -f F -i incr after newfile was added, incr holds exactly one *)
(* line, for newfile, and F holds lines for both testfile and newfile.     *)
(***************************************************************************)
C11_IncrAndMainHoldBoth ==
    IncrementalScenario =>
        /\ TextOf(incr) = << LineOf(PathB) >>
        /\ \E i \in DOMAIN chunksums.lines : chunksums.lines[i].line = LineOf(PathA)
        /\ \E i \in DOMAIN chunksums.lines : chunksums.lines[i].line = LineOf(PathB)

(***************************************************************************)
(* C11 as amended: after the two runs incr holds exactly one line, for     *)
(* newfile, and F is as run 1 left it: it holds the line for testfile only.*)
(***************************************************************************)
C11_IncrOnly ==
    IncrementalScenario =>
        /\ TextOf(incr) = << LineOf(PathB) >>
        /\ chunksums = prev.chunksums
        /\ TextOf(chunksums) = << LineOf(PathA) >>

\* the two runs were made and run 2 wrote its one line
C11_Witness ==
    /\ IncrementalScenario
    /\ Len(Written) = 1
    /\ incr.exists

\* q begins with p
IsPrefix(p, q) == Len(p) <= Len(q) /\ SubSeq(q, 1, Len(p)) = p

(***************************************************************************)
(* C12: the chunksums file is append-only.  Once F exists, every step of a *)
(* run leaves F in existence with its content so far as an unchanged       *)
(* prefix: no line written before is truncated, rewritten or removed.      *)
(***************************************************************************)
C12_AppendOnly ==
    [][chunksums.exists =>
          /\ chunksums'.exists
          /\ IsPrefix(chunksums.lines, chunksums'.lines)]_vars

\* a run that started with lines in F has appended a line of its own to F
C12_Witness ==
    /\ output_file = "F"
    /\ \E i \in DOMAIN chunksums.lines : chunksums.lines[i].run < run
    /\ \E i \in DOMAIN chunksums.lines : chunksums.lines[i].run = run

\* the lines of the first k enumerated paths that are not skipped, in the
\* order of the enumeration
LinesInOrder(k) ==
    LET kept == SelectSeq(SubSeq(Enumerated, 1, k), LAMBDA p : p \notin skip_func)
    IN  [i \in 1..Len(kept) |-> LineOf(kept[i])]

(***************************************************************************)
(* C13: in the single-process orchestrator the lines reach the sink in the *)
(* order of the enumeration: at every point of walk the sink holds, in     *)
(* order, the lines of the paths enumerated so far that produce a line, so *)
(* the line of p is written before the line of any q enumerated after p.   *)
(***************************************************************************)
C13_EnumerationOrder ==
    (~args.multi_process /\ pc \in { "walk", "done", "raised" }
        /\ output_file # "None")
        => Written = LinesInOrder(sp_i - 1)

\* walk is done and has written two different lines, the one of PathB first
C13_Witness ==
    /\ ~args.multi_process
    /\ pc = "done"
    /\ Enumerated = << PathB, PathA >>
    /\ Written = << LineOf(PathB), LineOf(PathA) >>

\* the lines of the enumerated paths that can be read and are not skipped
ReadableLines ==
    LET kept == SelectSeq(Enumerated,
                          LAMBDA p : fs[p] = "file" /\ p \notin skip_func)
    IN  [i \in 1..Len(kept) |-> LineOf(kept[i])]

(***************************************************************************)
(* C14: per-file I/O errors are local.  A path that cannot be sized,       *)
(* opened or read is skipped without a line and the run goes on: the       *)
(* single-process run is never ended by such an error and, when it ends,   *)
(* every other path that is not skipped has its line.                      *)
(***************************************************************************)
C14_ErrorsAreLocal ==
    (~args.multi_process /\ output_file # "None" /\ pc \in { "done", "raised" })
        => /\ pc = "done"
           /\ Written = ReadableLines

\* the text of a line has at least three fields separated by two spaces, one
\* '!' in the last field, and after it chunks of the form hex:int
IsHex(t) == t # << >> /\ \A i \in 1..Len(t) : \E d \in 1..16 : HexDigits[d] = t[i]

WellFormedLine(l) ==
    LET items == split(l, SP2)
        parts == split(items[Len(items)], << "!" >>)
    IN  /\ Len(items) >= 3
        /\ Len(parts) = 2
        /\ LET cs == SelectSeq(split(parts[2], << "," >>), LAMBDA c : c # << >>)
           IN  \A i \in 1..Len(cs) :
                  LET pair == split(cs[i], << ":" >>)
                  IN  Len(pair) = 2 /\ IsHex(pair[1]) /\ IsDecimal(pair[2])

\* the well-formed lines of the file read, parsed
WellFormedParsed ==
    LET texts == [i \in 1..Len(cs_lines) |-> strip(cs_lines[i].line)]
        good  == SelectSeq(texts, LAMBDA l : l # << >> /\ WellFormedLine(l))
    IN  [i \in 1..Len(good) |-> parse_line(good[i])]

(***************************************************************************)
(* C15: the chunksums reader is permissive.  On a malformed line           *)
(* parse_chunksums skips the line and goes on: it yields every well-formed *)
(* line of the file, before and after the malformed ones, and it ignores   *)
(* empty lines.                                                            *)
(***************************************************************************)
C15_PermissiveReader ==
    cs_out # NoneOut =>
        /\ ~cs_out.raised
        /\ cs_out.sums = WellFormedParsed

\* the same of the files without a malformed line: empty lines are ignored
ReaderOnWellFormed ==
    (cs_out # NoneOut
        /\ \A i \in 1..Len(cs_lines) : cs_lines[i].line \notin MalformedSamples)
        => (~cs_out.raised /\ cs_out.sums = WellFormedParsed)

\* a size token of the form [kmg][0-9], in either case, and nothing more
ValidSizeToken(t) ==
    /\ Len(t) = 2
    /\ lower_char(t[1]) \in { "k", "m", "g" }
    /\ IsDecimal(<< t[2] >>)

\* sha2, blake2b, blake2s, blake2b<digits> or blake2s<digits>, in either case
ValidHashName(n) ==
    \/ lower(n) \in HashNames
    \/ \E h \in HashNames \ { << "s", "h", "a", "2" >> } :
          /\ Len(n) > Len(h)
          /\ SubSeq(lower(n), 1, Len(h)) = h
          /\ IsDecimal(Drop(lower(n), Len(h) + 1))

(***************************************************************************)
(* C16: algorithm-id validation.  get_chunker accepts exactly the          *)
(* two-character tokens [kmg][0-9] and get_hasher exactly the names sha2,  *)
(* blake2b, blake2s, blake2b<digits> and blake2s<digits>, in either case;  *)
(* every other token or name, one with more characters after a valid       *)
(* prefix included, fails with an error.                                   *)
(***************************************************************************)
C16_AlgValidation ==
    alg_out # NoneOut =>
        /\ alg_token.kind = "size" => (alg_out.ok <=> ValidSizeToken(alg_token.text))
        /\ alg_token.kind = "hash" => (alg_out.ok <=> ValidHashName(alg_token.text))

\* what does hold: no token or name that lacks a valid prefix is accepted
AcceptedHasValidPrefix ==
    (alg_out # NoneOut /\ alg_out.ok) =>
        /\ alg_token.kind = "size" => ValidSizeToken(SubSeq(alg_token.text, 1, 2))
        /\ alg_token.kind = "hash" =>
              \E k \in 1..Len(alg_token.text) :
                  ValidHashName(SubSeq(alg_token.text, 1, k))

(***************************************************************************)
(* C17: multi-process termination.  Under fair scheduling, once the        *)
(* producer has put all paths and exited, the driver comes to see path_q   *)
(* empty with every busy flag clear and sets the consumer-stop flag, every *)
(* worker exits, the driver sets the collector-stop flag, the collector    *)
(* exits and compute_mp returns.                                           *)
(***************************************************************************)
C17_MpTerminates ==
    (args.multi_process /\ prod_pc = "done")
        ~> (/\ pc = "done"
            /\ stop_consumers
            /\ stop_collector
            /\ \A w \in Workers : Ended(w)
            /\ cpc = "exit")

\* the single-process run always comes to its end
SpTerminates == (~args.multi_process) ~> (pc \in { "done", "raised" })

(***************************************************************************)
(* C18: shutdown ordering in the multi-process orchestrator.  The          *)
(* consumer-stop flag is set only after the producer process has           *)
(* terminated, and the collector-stop flag only after every worker process *)
(* has exited: the collector-stop flag is never set while a worker is      *)
(* still running.                                                          *)
(***************************************************************************)
C18_ShutdownOrder ==
    /\ stop_consumers => prod_pc = "done"
    /\ stop_collector => (stop_consumers /\ \A w \in Workers : Ended(w))

\* both flags are set, after a worker that took a path and a worker that
\* took none have ended
C18_Witness ==
    /\ stop_consumers
    /\ stop_collector
    /\ \E w \in Workers : wpath[w] # NoneText
    /\ \E w \in Workers : wpc[w] = "exit"

\* worker w has dequeued a path, has not finished it and is still running
Holding(w) == wpc[w] \in { "busy_set", "compute" }

(***************************************************************************)
(* C19: the busy-flag polling criterion is race-free.  Whenever the driver *)
(* has seen path_q empty and all busy flags clear and sets the             *)
(* consumer-stop flag, no worker holds a path that it has dequeued and not *)
(* yet finished.                                                           *)
(***************************************************************************)
C19_RaceFree ==
    [][(~stop_consumers /\ stop_consumers')
          => \A w \in Workers : ~Holding(w)]_vars

C21_MonitorTerminates ==
    /\ (mpc = "run") ~> (mpc = "done")
    /\ [](pc = "done" => mpc # "run")
    /\ [](pc = "done" => queue_progress = << >>)

\* no step of a run of the command ends the progress monitor: nothing is
\* ever put on the progress queue, and the monitor leaves its loop only
\* after a get
MonitorNeverEnds == mpc # "done" /\ queue_progress = << >>

\* compute_mp returns from a run over an empty directory, in which no worker
\* dequeues a path, and leaves the progress monitor running
ReturnsWithMonitorRunning ==
    /\ pc = "done"
    /\ mpc = "run"
    /\ total = 0
    /\ Enumerated = << >>
    /\ \A w \in Workers : wpc[w] = "exit"

\* a sequence without its last element
AllButLast(s) == IF s = << >> THEN << >> ELSE SubSeq(s, 1, Len(s) - 1)

(***************************************************************************)
(* C22: Chunker.chunks is one-shot.  An update that returns prepares the   *)
(* splitter over tail || bytes and leaves the tail as it is.  Iterating    *)
(* chunks right after it yields, in order, every chunk the splitter makes  *)
(* of tail || bytes except the last, and the last becomes the new tail.    *)
(* Iterating chunks again without an update in between yields nothing, and *)
(* so does iterating chunks on a Chunker that was never updated.           *)
(***************************************************************************)
C22_ChunksOneShot ==
    [][/\ (last_call' = "update" /\ ~raised') =>
              \E message \in SeqsUpTo(Bytes, MaxMsg) :
                  /\ chunker'._iter = chunker._tail \o message
                  /\ chunker'._tail = chunker._tail
                  /\ supplied' = supplied \o message
       /\ (last_call' = "chunks" /\ last_call = "update" /\ ~raised) =>
              LET all == chunk_func(chunker._iter)
              IN  /\ yielded' = yielded \o AllButLast(all)
                  /\ all # << >> => chunker'._tail = all[Len(all)]
       /\ (last_call' = "chunks" /\ last_call \in { "chunks", "new" }) =>
              yielded' = yielded
      ]_vars

\* chunks was iterated after the last of several updates: the splitter ran
\* over the retained tail and the new bytes, a chunk longer than any one
\* message was yielded and a last chunk was retained
C22_Witness ==
    /\ last_call = "chunks"
    /\ Len(supplied) = MaxSupplied
    /\ \E i \in 1..Len(yielded) : Len(yielded[i]) > MaxMsg
    /\ Truthy(chunker._tail)
    /\ concat(yielded) \o chunker._tail = supplied

\* most calls made on a Chunker after a reset
MaxCalls == 3

\* the calls made after a reset: list(c.chunks) and c.update(message)
CallsAfter ==
    { [op |-> "chunks", message |-> << >>] }
    \cup { [op |-> "update", message |-> m] : m \in SeqsUpTo(Bytes, MaxMsg) }

RECURSIVE Observed(_, _)
\* what a caller sees of Chunker c over a sequence of calls: for each call,
\* whether it raised, the chunks it yielded and the tail after it
Observed(c, calls) ==
    IF calls = << >> THEN << >>
    ELSE IF calls[1].op = "chunks"
    THEN << [raises  |-> FALSE,
             yielded |-> ChunksYielded(c),
             tail    |-> ChunkerChunks(c)._tail] >>
         \o Observed(ChunkerChunks(c), Tail(calls))
    ELSE IF UpdateRaises(c)
    THEN << [raises |-> TRUE, yielded |-> << >>, tail |-> c._tail] >>
         \o Observed(c, Tail(calls))
    ELSE << [raises |-> FALSE, yielded |-> << >>, tail |-> c._tail] >>
         \o Observed(ChunkerUpdate(c, calls[1].message), Tail(calls))

(***************************************************************************)
(* C23: Chunker.reset starts a fresh logical stream.  reset leaves the     *)
(* tail empty, and whatever calls came before it (an update whose chunks   *)
(* were not iterated among them), the chunks yielded and the tail kept by  *)
(* the calls after the reset, and whether they raise, are those of a new   *)
(* Chunker given the same calls: they depend on nothing but the bytes      *)
(* supplied after the reset.                                               *)
(***************************************************************************)
C23_FreshAfterReset ==
    last_call = "reset" =>
        /\ chunker._tail = << >>
        /\ \A calls \in SeqsUpTo(CallsAfter, MaxCalls) :
              Observed(chunker, calls) = Observed(NewChunker, calls)

\* when the first call after the reset is an update, the calls after the
\* reset see what they see of a new Chunker
FreshWhenUpdateIsFirst ==
    last_call = "reset" =>
        /\ chunker._tail = << >>
        /\ \A calls \in SeqsUpTo(CallsAfter, MaxCalls) :
              (calls # << >> /\ calls[1].op = "update")
                  => Observed(chunker, calls) = Observed(NewChunker, calls)

\* the splitter has nothing new when chunks is iterated: the property was
\* iterated to its end already, or the Chunker was never updated, or the
\* last update supplied an empty buffer
NothingNew ==
    \/ last_call \in { "chunks", "new" }
    \/ last_call = "update" /\ ~raised /\ chunker._iter = chunker._tail

(***************************************************************************)
(* C24: the tail is always a byte string.  Iterating chunks when the       *)
(* splitter has nothing new to produce leaves the tail unchanged, and      *)
(* after any sequence of update, chunks and reset the tail is a byte       *)
(* string, never None: no update raises and no retained bytes are dropped. *)
(***************************************************************************)
C24_TailIsBytes ==
    [][/\ chunker'._tail # NoneBytes
       /\ ~raised'
       /\ (last_call' = "chunks" /\ NothingNew) => chunker'._tail = chunker._tail
      ]_vars

\* update(empty) after prior data: the splitter runs over the retained tail
\* alone and makes of it the one chunk it was, so the tail is unchanged
EmptyUpdateKeepsTail ==
    [][(/\ last_call' = "chunks"
        /\ last_call = "update"
        /\ ~raised
        /\ chunker._iter = chunker._tail
        /\ chunker._tail # << >>) => chunker'._tail = chunker._tail]_vars

(***************************************************************************)
(* C25: busy flags are cleared.  Under fair scheduling every worker busy   *)
(* flag that is set is cleared again, also when the processing of the      *)
(* dequeued path raises or the worker process dies, so the all-idle poll   *)
(* of wait_consumers cannot wait forever for a worker that will never      *)
(* clear its flag; a worker crash ends the run.                            *)
(***************************************************************************)
C25_BusyCleared ==
    /\ \A w \in Workers : busy_events[w] ~> ~busy_events[w]
    /\ (\E w \in Workers : wpc[w] = "raised") ~> (pc \in { "done", "raised" })

\* no worker ever clears its busy flag: a flag that is set stays set
BusyStaysSet ==
    [][\A w \in Workers : busy_events[w] => busy_events'[w]]_vars

\* the producer waits in queue_path.put: path_q is full and a path is left
ProducerWaiting ==
    /\ prod_pc = "run"
    /\ prod_i <= Len(Enumerated)
    /\ Len(queue_path) = queue_path_max

\* worker w waits for a path: path_q is empty and the stop flag is not set
WorkerWaiting(w) ==
    /\ wpc[w] \in { "loop", "get" }
    /\ queue_path = << >>
    /\ ~stop_consumers

\* the collector waits for a line: result_q is empty, its stop flag not set
CollectorWaiting ==
    /\ cpc \in { "loop", "get" }
    /\ queue_sums = << >>
    /\ ~stop_collector

\* the progress monitor waits for a size
MonitorWaiting == mpc = "run" /\ queue_progress = << >>

\* the driver waits in a join for a process that has not ended, or in the
\* poll of wait_consumers for a busy flag to clear or path_q to empty: the
\* round of the poll it is in has read a set flag, or has one still to read,
\* or will find path_q not empty
DriverWaiting ==
    \/ pc = "join_producer" /\ prod_pc # "done"
    \/ /\ pc = "wait_consumers"
       /\ \/ queue_path # << >>
          \/ ~all_idle
          \/ \E i \in poll_i..NumWorkers : busy_events[i]
    \/ pc = "join_consumers" /\ \E w \in Workers : ~Ended(w)
    \/ pc = "join_collector" /\ cpc # "exit"

\* compute_mp has started its processes and has not returned
MpRunning ==
    pc \in { "join_producer", "wait_consumers", "join_consumers", "join_collector" }

\* every process that has not ended waits for something that only another
\* process can give
AllWaiting ==
    /\ DriverWaiting
    /\ prod_pc = "run" => ProducerWaiting
    /\ \A w \in Workers : ~Ended(w) => WorkerWaiting(w)
    /\ cpc # "exit" => CollectorWaiting
    /\ mpc = "run" => MonitorWaiting

(***************************************************************************)
(* C26: deadlock freedom of the multi-process orchestrator.  With path_q,  *)
(* result_q and the progress queue of capacity 10 each, no state before    *)
(* the return of compute_mp has every live process waiting: the producer   *)
(* on a full path_q, the workers on their queues, the driver on them.      *)
(***************************************************************************)
C26_DeadlockFree == MpRunning => ~AllWaiting

\* the producer waits on the full path_q with a path left, the driver waits
\* for the producer, every worker has ended, and the collector and the
\* monitor wait on their empty queues
ProducerDeadlock ==
    /\ MpRunning
    /\ AllWaiting
    /\ ProducerWaiting
    /\ \A w \in Workers : Ended(w)

\* waiting is for good: no step leads out of a state with every process
\* waiting but the turns of the polling loops, which change no queue, no
\* flag and no process's end
DeadlockIsStable ==
    [][(MpRunning /\ AllWaiting) => (MpRunning /\ AllWaiting)']_vars

\* the paths of the lines of the chunksums file, as parse_chunksums reads them
PathsInF ==
    LET sums == parse_chunksums(chunksums.lines)
    IN  [i \in 1..Len(sums) |-> sums[i].path]

\* no element occurs twice in the sequence
NoRepeat(q) == \A i, j \in 1..Len(q) : i # j => q[i] # q[j]

\* every line of the chunksums file was written by the runs looked at: the
\* file did not exist, or held no line, before the first of them
StartedWithoutF == \A i \in 1..Len(chunksums.lines) : chunksums.lines[i].run >= 1

(***************************************************************************)
(* C27: at most one line per path.  After any sequence of runs that append *)
(* to the same chunksums file F, starting without F, F holds at most one   *)
(* line for each path, also when a run enumerates a path more than once    *)
(* (the same file given twice on the command line).                        *)
(***************************************************************************)
C27_OneLinePerPath == StartedWithoutF => NoRepeat(PathsInF)

\* the same holds when no run enumerates a path twice
OneLinePerPathWithoutRepeats ==
    (/\ StartedWithoutF
     /\ NoRepeat(iter_files(args.paths, fs))
     /\ NoRepeat(iter_files(prev.args.paths, prev.fs)))
        => NoRepeat(PathsInF)

====
